---------------------------- MODULE Spec2Model ----------------------------
(***************************************************************************)
(* cutkmz: the kmz subcommand (cmd/bigkmz.go, second half: process and its *)
(* helpers) and the pure geometry functions exercised by cmd/kmz_test.go.  *)
(*                                                                         *)
(* Numbers.  The Go code computes in float64.  The model computes in exact *)
(* fixed-point arithmetic: a latitude or longitude is an integer number of *)
(* model units, Unit units to the degree.  Unit is chosen so that every    *)
(* input the model draws (multiples of a tenth of a degree) and every      *)
(* quotient tile/full the walk forms is exact.  Floating-point rounding is *)
(* therefore outside the model.                                            *)
(*                                                                         *)
(* Strings.  A Go string is a sequence of one-character strings.           *)
(***************************************************************************)
EXTENDS Integers, Sequences, FiniteSets, TLC

(***************************************************************************)
(* Bounds of the model.                                                    *)
(***************************************************************************)
\* pixel sizes are multiples of PxStep pixels ...
PxStep == 512
\* ... up to MaxWide * PxStep pixels for the width of an image
MaxWide == 3
\* ... and up to MaxHigh * PxStep pixels for its height
MaxHigh == 2
\* the longitudes handed to the pure functions range over [-MaxDeg, MaxDeg] degrees
MaxDeg == 900
\* the tile files are numbered from 0 up to MaxIndex
MaxIndex == 1005

RECURSIVE Gcd(_, _)
Gcd(a, b) == IF b = 0 THEN a ELSE Gcd(b, a % b)

Lcm(a, b) == (a * b) \div Gcd(a, b)

RECURSIVE LcmUpTo(_)
LcmUpTo(n) == IF n <= 1 THEN 1 ELSE Lcm(n, LcmUpTo(n - 1))

\* a tenth of a degree, in model units: divisible by every pixel size
Tenth == PxStep * Lcm(LcmUpTo(MaxWide), LcmUpTo(MaxHigh))
\* one degree, in model units
Unit == 10 * Tenth

Deg(d) == d * Unit

(***************************************************************************)
(* math.Mod(x, y) for y > 0: the remainder takes the sign of x.  TLC's %   *)
(* is the non-negative remainder, so the sign is put back by hand.         *)
(***************************************************************************)
Mod(x, y) == IF x >= 0 THEN x % y ELSE -((-x) % y)

(***************************************************************************)
(* normEasting, bigkmz.go:602-611.                                         *)
(***************************************************************************)
normEastingNoWrapLow(deg) ==
    IF deg > Deg(180) THEN Mod(deg - Deg(180), Deg(360)) - Deg(180) ELSE deg

normEastingOneTurn(deg) ==
    IF deg < -Deg(180) THEN deg + Deg(360)
    ELSE IF deg > Deg(180) THEN deg - Deg(360)
    ELSE deg

normEastingMathMod(deg) ==
    IF deg < -Deg(180) THEN ((deg + Deg(180)) % Deg(360)) + Deg(180)
    ELSE IF deg > Deg(180) THEN ((deg - Deg(180)) % Deg(360)) - Deg(180)
    ELSE deg

normEasting(deg) ==
    IF deg < -Deg(180) THEN Mod(deg + Deg(180), Deg(360)) + Deg(180)
    ELSE IF deg > Deg(180) THEN Mod(deg - Deg(180), Deg(360)) - Deg(180)
    ELSE deg

(***************************************************************************)
(* eastDelta, bigkmz.go:592-599.                                           *)
(***************************************************************************)
eastDeltaNoWrap(e, w) == normEasting(e) - normEasting(w)

eastDelta(e, w) ==
    LET e1 == normEasting(e)
        w1 == normEasting(w)
    IN  IF e1 < w1 THEN Deg(360) + e1 - w1 ELSE e1 - w1

(***************************************************************************)
(* The box indices, bigkmz.go:238-243 (iota starts at 0; a TLA+ sequence   *)
(* starts at 1).                                                           *)
(***************************************************************************)
north == 1
south == 2
east  == 3
west  == 4


(***************************************************************************)
(* Strings.                                                                *)
(***************************************************************************)
\* strings.Index for a one-character separator: 0 when absent
IndexOf(s, c) ==
    IF \E i \in 1..Len(s) : s[i] = c
    THEN CHOOSE i \in 1..Len(s) : s[i] = c /\ \A j \in 1..(i - 1) : s[j] # c
    ELSE 0

\* strings.SplitN(s, c, n) for n > 0: at most n parts, the last one unsplit
RECURSIVE SplitN(_, _, _)
SplitN(s, c, n) ==
    LET i == IndexOf(s, c)
    IN  IF n = 1 \/ i = 0 THEN <<s>>
        ELSE <<SubSeq(s, 1, i - 1)>> \o SplitN(SubSeq(s, i + 1, Len(s)), c, n - 1)

\* strings.Split(s, c): every part
Split(s, c) == SplitN(s, c, Len(s) + 1)

\* filepath.Base: trailing slashes dropped, then what follows the last slash
RECURSIVE TrimSlashes(_)
TrimSlashes(p) ==
    IF Len(p) > 0 /\ p[Len(p)] = "/" THEN TrimSlashes(SubSeq(p, 1, Len(p) - 1)) ELSE p

RECURSIVE AfterLastSlash(_)
AfterLastSlash(p) ==
    LET i == IndexOf(p, "/")
    IN  IF i = 0 THEN p ELSE AfterLastSlash(SubSeq(p, i + 1, Len(p)))

Base(path) ==
    IF path = <<>> THEN <<".">>
    ELSE LET t == AfterLastSlash(TrimSlashes(path))
         IN  IF t = <<>> THEN <<"/">> ELSE t

Digits == {"0", "1", "2", "3", "4", "5", "6", "7", "8", "9"}

DigitVal(c) ==
    CASE c = "0" -> 0 [] c = "1" -> 1 [] c = "2" -> 2 [] c = "3" -> 3
      [] c = "4" -> 4 [] c = "5" -> 5 [] c = "6" -> 6 [] c = "7" -> 7
      [] c = "8" -> 8 [] c = "9" -> 9

RECURSIVE Natural(_)
Natural(ds) ==
    IF ds = <<>> THEN 0
    ELSE 10 * Natural(SubSeq(ds, 1, Len(ds) - 1)) + DigitVal(ds[Len(ds)])

RECURSIVE Pow10(_)
Pow10(n) == IF n = 0 THEN 1 ELSE 10 * Pow10(n - 1)

(***************************************************************************)
(* strconv.ParseFloat(s, 64) on the decimal syntax [+-]digits[.digits]     *)
(* (at least one digit).  Exponents, hex floats, "inf" and "nan" are not   *)
(* drawn by the model; any other character is a syntax error, as in Go.    *)
(* The value is in model units.                                            *)
(***************************************************************************)
ParseFloat(s) ==
    LET signed == Len(s) > 0 /\ s[1] \in {"+", "-"}
        body   == IF signed THEN SubSeq(s, 2, Len(s)) ELSE s
        dot    == IndexOf(body, ".")
        ip     == IF dot = 0 THEN body ELSE SubSeq(body, 1, dot - 1)
        fp     == IF dot = 0 THEN <<>> ELSE SubSeq(body, dot + 1, Len(body))
        wellFormed ==
            /\ \A i \in 1..Len(ip) : ip[i] \in Digits
            /\ \A i \in 1..Len(fp) : fp[i] \in Digits
            /\ Len(ip) + Len(fp) > 0
        mag    == Natural(ip) * Unit + (Natural(fp) * Unit) \div Pow10(Len(fp))
    IN  IF ~wellFormed THEN [ok |-> FALSE, val |-> 0]
        ELSE [ok |-> TRUE, val |-> IF signed /\ s[1] = "-" THEN -mag ELSE mag]

(***************************************************************************)
(* getBox, bigkmz.go:349-375.  The result is (base, box, err); err is      *)
(* "nil" or the name of the failure.                                       *)
(***************************************************************************)
getBoxNoBase(image) ==
    LET c == Split(image, "_")
    IN  IF Len(c) # 5 THEN [base |-> <<>>, box |-> <<>>, err |-> "FileName"]
        ELSE
          LET s  == SplitN(c[5], ".", 3)
              c4 == IF Len(s) = 3 THEN s[1] \o <<".">> \o s[2] ELSE c[5]
              f  == [i \in 1..4 |-> ParseFloat(IF i = 4 THEN c4 ELSE c[i + 1])]
              box == [i \in 1..4 |-> f[i].val]
          IN  IF \E i \in 1..4 : ~f[i].ok
              THEN [base |-> <<>>, box |-> <<>>, err |-> "ParseFloat"]
              ELSE IF box[north] <= box[south] \/ box[north] > Deg(90) \/ box[south] < -Deg(90)
              THEN [base |-> c[1], box |-> box, err |-> "Box"]
              ELSE [base |-> c[1], box |-> box, err |-> "nil"]

getBox(image) ==
    LET c == Split(image, "_")
    IN  IF Len(c) # 5 THEN [base |-> <<>>, box |-> <<>>, err |-> "FileName"]
        ELSE
          LET s  == SplitN(c[5], ".", 3)
              c4 == IF Len(s) = 3 THEN s[1] \o <<".">> \o s[2] ELSE c[5]
              f  == [i \in 1..4 |-> ParseFloat(IF i = 4 THEN c4 ELSE c[i + 1])]
              box == [i \in 1..4 |-> f[i].val]
          IN  IF \E i \in 1..4 : ~f[i].ok
              THEN [base |-> <<>>, box |-> <<>>, err |-> "ParseFloat"]
              ELSE IF box[north] <= box[south] \/ box[north] > Deg(90) \/ box[south] < -Deg(90)
              THEN [base |-> Base(c[1]), box |-> box, err |-> "Box"]
              ELSE [base |-> Base(c[1]), box |-> box, err |-> "nil"]

(***************************************************************************)
(* NewMapTile, bigkmz.go:257-268.  A panic is the record Panic.            *)
(***************************************************************************)
Panic == [panic |-> "No crossing a pole and map's North must be greater than South"]

IsPanic(t) == "panic" \in DOMAIN t

NewMapTile(fpath, pixWid, pixHigh, n, s, e, w) ==
    IF n > Deg(90) \/ s < -Deg(90) \/ n < s THEN Panic
    ELSE [fpath |-> fpath, width |-> pixWid, height |-> pixHigh,
          box |-> <<n, s, normEasting(e), normEasting(w)>>]

(***************************************************************************)
(* delta, bigkmz.go:583-588.  (part / tot) * span, formed as               *)
(* (span / tot) * part: span is a multiple of Tenth and tot divides Tenth, *)
(* so the quotient is exact and no product leaves TLC's integers.          *)
(***************************************************************************)
Scale(part, tot, span) == (span \div tot) * part

deltaWidthForHeight(tileWidth, tileHeight, box, totWidth, totHeight) ==
    LET nsDeltaDeg == Scale(tileWidth, totHeight, box[north] - box[south])
        ewDeg      == eastDelta(box[east], box[west])
        ewDeltaDeg == Scale(tileWidth, totWidth, ewDeg)
    IN  <<nsDeltaDeg, ewDeltaDeg>>

delta(tileWidth, tileHeight, box, totWidth, totHeight) ==
    LET nsDeltaDeg == Scale(tileHeight, totHeight, box[north] - box[south])
        ewDeg      == eastDelta(box[east], box[west])
        ewDeltaDeg == Scale(tileWidth, totWidth, ewDeg)
    IN  <<nsDeltaDeg, ewDeltaDeg>>

(***************************************************************************)
(* finishTileBox, bigkmz.go:572-576: the tile with south and east set.     *)
(***************************************************************************)
finishTileBoxNormEast(tile, fullMap) ==
    LET d == delta(tile.width, tile.height, fullMap.box, fullMap.width, fullMap.height)
    IN  [tile EXCEPT !.box = [tile.box EXCEPT ![south] = tile.box[north] - d[1],
                                               ![east]  = normEasting(tile.box[west] + d[2])]]

finishTileBox(tile, fullMap) ==
    LET d == delta(tile.width, tile.height, fullMap.box, fullMap.width, fullMap.height)
    IN  [tile EXCEPT !.box = [tile.box EXCEPT ![south] = tile.box[north] - d[1],
                                               ![east]  = tile.box[west] + d[2]]]


(***************************************************************************)
(* The state.                                                              *)
(*                                                                         *)
(* process (bigkmz.go:406-533):                                            *)
(*   args, maxTiles, keepTmp   the command line                            *)
(*   given      history: the pieces each file name was put together from   *)
(*   pixels     pixels[i] = the width and height of the file args[i]       *)
(*   pc, argi   the position in process, the index of the current image    *)
(*   err        what process returns ("nil": no error)                     *)
(*   base, box  the results of getBox                                      *)
(*   origMap, fixedMap, fixedJpg, tileFiles                                *)
(*   tmpDir     "none", "made" or "removed"                                *)
(*   kml        the overlays written to doc.kml so far, kmlOpen its state  *)
(*   kmlFtr     the footer has been written to doc.kml                     *)
(*   kmz        the number of .kmz files created                           *)
(*   zf         the .kmz of the current image: "none", or what zipd has    *)
(*              put into it, "whole" (every file of the directory) or      *)
(*              "partial"                                                  *)
(*   widthSum, currNorth, currWest, ti, tile   the locals of the walk      *)
(*   anchors    history: the (north, west) pairs handed to                 *)
(*              NewMapTileFromFile by the walk of the current image        *)
(* the functions called on their own, as kmz_test.go does:                 *)
(*   fn, argv, ret                                                         *)
(***************************************************************************)
VARIABLES args, given, maxTiles, keepTmp, pixels, pc, argi, err, base, box,
          origMap, fixedMap, fixedJpg, tileFiles, tmpDir, kml, kmlOpen, kmlFtr,
          kmz, zf,
          widthSum, currNorth, currWest, ti, tile, anchors,
          fn, argv, ret

inputs   == <<args, given, maxTiles, keepTmp, pixels>>
parsed   == <<base, box>>
maps     == <<origMap, fixedMap, fixedJpg, tileFiles>>
files    == <<tmpDir, kml, kmlOpen, kmlFtr, kmz, zf>>
walk     == <<widthSum, currNorth, currWest, ti, tile, anchors>>
call     == <<fn, argv, ret>>
vars     == <<inputs, pc, argi, err, parsed, maps, files, walk, call>>

NoTile == [fpath |-> "", width |-> 0, height |-> 0, box |-> <<0, 0, 0, 0>>]
NoSize == [width |-> 0, height |-> 0]

(***************************************************************************)
(* What the image engine (ImageMagick) can put on disk.                    *)
(***************************************************************************)
Sizes == {[width |-> w * PxStep, height |-> h * PxStep] : w \in 1..MaxWide, h \in 1..MaxHigh}

\* the ways of writing n as an ordered sum of positive integers
RECURSIVE Compositions(_)
Compositions(n) ==
    IF n = 0 THEN {<<>>}
    ELSE UNION {{<<j>> \o c : c \in Compositions(n - j)} : j \in 1..n}

\* one row of tiles of height h across an image w wide
Rows(w, h) ==
    {[i \in 1..Len(c) |-> [width |-> c[i] * PxStep, height |-> h]] :
        c \in Compositions(w \div PxStep)}

RECURSIVE GridsOfRows(_, _)
GridsOfRows(w, hs) ==
    IF hs = <<>> THEN {<<>>}
    ELSE {r \o g : r \in Rows(w, Head(hs) * PxStep), g \in GridsOfRows(w, Tail(hs))}

\* the row-major tile sequences that cover an image of w x h pixels
Grids(w, h) == UNION {GridsOfRows(w, hs) : hs \in Compositions(h \div PxStep)}

\* bigkmz.go:636: the side of the squares convert -crop cuts, in pixels
CropSide == 1024

\* the lengths a side of n pixels is cut into: CropSide each, then the rest
RECURSIVE Strips(_)
Strips(n) ==
    IF n <= 0 THEN <<>>
    ELSE IF n <= CropSide THEN <<n>>
    ELSE <<CropSide>> \o Strips(n - CropSide)

(***************************************************************************)
(* chopToJpgs, bigkmz.go:634-643: convert -crop 1024x1024 +adjoin on an    *)
(* image of w x h pixels writes the tiles <base>_tile_000.jpg, _001, ...   *)
(* from the top left, eastwards and then down; the tiles of the last       *)
(* column and of the last row are what is left of the image.               *)
(***************************************************************************)
chopToJpgs(w, h) ==
    LET ws == Strips(w)
        hs == Strips(h)
    IN  [k \in 1..(Len(ws) * Len(hs)) |->
            [width  |-> ws[((k - 1) % Len(ws)) + 1],
             height |-> hs[((k - 1) \div Len(ws)) + 1]]]


(***************************************************************************)
(* process, bigkmz.go:406-533, one action per step.  Where the code        *)
(* returns early on an error of the operating system or of the image       *)
(* engine, the outcome is chosen by the environment.                       *)
(***************************************************************************)
Return(e) == /\ pc' = "return"
             /\ err' = e

\* bigkmz.go:413-417: no argument is an error, else the loop starts
Begin ==
    /\ pc = "begin"
    /\ IF Len(args) = 0
       THEN Return("NoImage") /\ UNCHANGED argi
       ELSE pc' = "stat" /\ argi' = 1 /\ UNCHANGED err
    /\ UNCHANGED <<inputs, parsed, maps, files, walk, call>>

\* bigkmz.go:418-424: os.Stat and filepath.Abs
Stat ==
    /\ pc = "stat"
    /\ \E r \in {"ok", "NotExist", "Abs"} :
          IF r = "ok" THEN pc' = "getBox" /\ UNCHANGED err ELSE Return(r)
    /\ UNCHANGED <<inputs, argi, parsed, maps, files, walk, call>>

\* bigkmz.go:425-428
GetBox ==
    /\ pc = "getBox"
    /\ LET r == getBox(args[argi])
       IN  /\ base' = r.base
           /\ box' = r.box
           /\ IF r.err # "nil" THEN Return(r.err) ELSE pc' = "origMap" /\ UNCHANGED err
    /\ UNCHANGED <<inputs, argi, maps, files, walk, call>>

\* bigkmz.go:429-432: NewMapTileFromFile on the image given
OrigMap ==
    /\ pc = "origMap"
    /\ \E ok \in BOOLEAN :
          IF ~ok THEN Return("Dimensions") /\ UNCHANGED origMap
          ELSE LET t == NewMapTile("image", pixels[argi].width, pixels[argi].height,
                                   box[north], box[south], box[east], box[west])
               IN  IF IsPanic(t)
                   THEN pc' = "panic" /\ UNCHANGED <<err, origMap>>
                   ELSE pc' = "tempDir" /\ origMap' = t /\ UNCHANGED err
    /\ UNCHANGED <<inputs, argi, parsed, fixedMap, fixedJpg, tileFiles, files, walk, call>>

\* bigkmz.go:434-442: ioutil.TempDir and os.MkdirAll
TempDir ==
    /\ pc = "tempDir"
    /\ \E r \in {"ok", "TempDir", "MkdirAll"} :
          /\ tmpDir' = IF r = "TempDir" THEN tmpDir ELSE "made"
          /\ IF r = "ok" THEN pc' = "fix" /\ UNCHANGED err ELSE Return(r)
    /\ UNCHANGED <<inputs, argi, parsed, maps, kml, kmlOpen, kmlFtr, kmz, zf, walk, call>>

\* bigkmz.go:433
MaxPixels == maxTiles * 1024 * 1024

\* bigkmz.go:444-449: resizeFixToJpg or fixToJpg; their errors are dropped,
\* a failed engine leaves no fixed.jpg (NoSize)
Fix ==
    /\ pc = "fix"
    /\ IF MaxPixels < origMap.height * origMap.width
       THEN fixedJpg' \in {NoSize} \cup
                {z \in Sizes : /\ z.width <= origMap.width
                               /\ z.height <= origMap.height
                               /\ z.width * z.height <= MaxPixels}
       ELSE fixedJpg' \in {NoSize, [width |-> origMap.width, height |-> origMap.height]}
    /\ pc' = "fixedMap"
    /\ UNCHANGED <<inputs, argi, err, parsed, origMap, fixedMap, tileFiles, files, walk, call>>

\* bigkmz.go:455-458: NewMapTileFromFile on fixed.jpg
FixedMap ==
    /\ pc = "fixedMap"
    /\ \E ok \in BOOLEAN :
          IF ~ok \/ fixedJpg = NoSize THEN Return("Dimensions") /\ UNCHANGED fixedMap
          ELSE LET t == NewMapTile("fixed.jpg", fixedJpg.width, fixedJpg.height,
                                   box[north], box[south], box[east], box[west])
               IN  IF IsPanic(t)
                   THEN pc' = "panic" /\ UNCHANGED <<err, fixedMap>>
                   ELSE pc' = "chop" /\ fixedMap' = t /\ UNCHANGED err
    /\ UNCHANGED <<inputs, argi, parsed, origMap, fixedJpg, tileFiles, files, walk, call>>

\* bigkmz.go:461: chopToJpgs; its error is dropped, a failed engine leaves
\* no tile.  The tiles are those of convert -crop 1024x1024, or any other
\* grid over the image (the walk does not rely on the size of the tiles)
Chop ==
    /\ pc = "chop"
    /\ tileFiles' \in {<<>>, chopToJpgs(fixedMap.width, fixedMap.height)}
                        \cup Grids(fixedMap.width, fixedMap.height)
    /\ pc' = "startKML"
    /\ UNCHANGED <<inputs, argi, err, parsed, origMap, fixedMap, fixedJpg, files, walk, call>>

(***************************************************************************)
(* The names of the tile files, bigkmz.go:635: fmt's %03d is the decimal   *)
(* number, with zeros in front up to three digits.                         *)
(***************************************************************************)
DigitChar(d) == <<"0", "1", "2", "3", "4", "5", "6", "7", "8", "9">>[d + 1]

RECURSIVE Decimal(_)
Decimal(n) ==
    IF n < 10 THEN <<DigitChar(n)>> ELSE Append(Decimal(n \div 10), DigitChar(n % 10))

RECURSIVE ZeroPad(_, _)
ZeroPad(ds, n) == IF Len(ds) >= n THEN ds ELSE ZeroPad(<<"0">> \o ds, n)

TileName(baseName, i) ==
    baseName \o <<"_", "t", "i", "l", "e", "_">> \o ZeroPad(Decimal(i), 3)
             \o <<".", "j", "p", "g">>

\* the characters of a tile name, in the order of their bytes
Bytes == <<".", "0", "1", "2", "3", "4", "5", "6", "7", "8", "9", "_",
           "e", "g", "i", "j", "l", "m", "p", "t">>

Ord(c) == CHOOSE k \in 1..Len(Bytes) : Bytes[k] = c

\* a < b for Go strings: byte by byte, a proper prefix comes first; this is
\* the order ioutil.ReadDir sorts the file names in (bigkmz.go:479)
RECURSIVE StringLess(_, _)
StringLess(a, b) ==
    IF b = <<>> THEN FALSE
    ELSE IF a = <<>> THEN TRUE
    ELSE IF a[1] = b[1] THEN StringLess(Tail(a), Tail(b))
    ELSE Ord(a[1]) < Ord(b[1])

\* bigkmz.go:463-470: doc.kml is created and its header written
StartKML ==
    /\ pc = "startKML"
    /\ \E r \in {"ok", "Create", "startKML"} :
          /\ kmlOpen' = (r # "Create")
          /\ IF r = "ok" THEN pc' = "readDir" /\ UNCHANGED err ELSE Return(r)
    /\ kml' = <<>>
    /\ UNCHANGED <<inputs, argi, parsed, maps, tmpDir, kmlFtr, kmz, zf, walk, call>>

\* bigkmz.go:478-484: the tile files sorted by name, and the locals of the
\* walk.  tileFiles is in the order of the tile numbers, which is the order
\* of the names for the few tiles an image of Sizes is cut into.
ReadDir ==
    /\ pc = "readDir"
    /\ \E ok \in BOOLEAN :
          IF ~ok THEN Return("ReadDir") /\ UNCHANGED walk
          ELSE /\ pc' = "walk"
               /\ widthSum' = 0
               /\ currNorth' = fixedMap.box[north]
               /\ currWest' = fixedMap.box[west]
               /\ ti' = 0
               /\ tile' = NoTile
               /\ anchors' = <<>>
               /\ UNCHANGED err
    /\ UNCHANGED <<inputs, argi, parsed, maps, files, call>>

\* bigkmz.go:505-513: the anchor of the next tile
NextAnchorNormalized(t, sum) ==
    IF sum >= fixedMap.width
    THEN [north |-> t.box[south], west |-> fixedMap.box[west], widthSum |-> 0]
    ELSE [north |-> currNorth, west |-> normEasting(t.box[east]), widthSum |-> sum]

NextAnchorStrict(t, sum) ==
    IF sum > fixedMap.width
    THEN [north |-> t.box[south], west |-> fixedMap.box[west], widthSum |-> 0]
    ELSE [north |-> currNorth, west |-> t.box[east], widthSum |-> sum]

NextAnchorNoRows(t, sum) ==
    [north |-> currNorth, west |-> t.box[east], widthSum |-> sum]

NextAnchor(t, sum) ==
    IF sum >= fixedMap.width
    THEN [north |-> t.box[south], west |-> fixedMap.box[west], widthSum |-> 0]
    ELSE [north |-> currNorth, west |-> t.box[east], widthSum |-> sum]

\* bigkmz.go:485-514: the body of the loop over the tile files
TileStep ==
    /\ pc = "walk"
    /\ ti < Len(tileFiles)
    /\ \E r \in {"ok", "Dimensions", "Overlay"} :
          LET tf == tileFiles[ti + 1]
              t0 == NewMapTile("tile", tf.width, tf.height, currNorth, 0, 0, currWest)
          IN  IF r = "Dimensions" THEN Return(r) /\ UNCHANGED <<files, walk>>
              ELSE IF IsPanic(t0)
              THEN /\ pc' = "panic"
                   /\ anchors' = Append(anchors, <<currNorth, currWest>>)
                   /\ UNCHANGED <<err, files, widthSum, currNorth, currWest, ti, tile>>
              ELSE LET t == finishTileBox(t0, fixedMap)
                       a == NextAnchor(t, widthSum + t.width)
                   IN  /\ tile' = t
                       /\ anchors' = Append(anchors, <<currNorth, currWest>>)
                       /\ IF r = "Overlay"
                          THEN /\ Return(r)
                               /\ UNCHANGED <<tmpDir, kml, kmlOpen, kmlFtr, kmz, zf>>
                               /\ UNCHANGED <<widthSum, currNorth, currWest, ti>>
                          ELSE /\ kml' = Append(kml, t)
                               /\ widthSum' = a.widthSum
                               /\ currNorth' = a.north
                               /\ currWest' = a.west
                               /\ ti' = ti + 1
                               /\ UNCHANGED <<pc, err, tmpDir, kmlOpen, kmlFtr, kmz, zf>>
    /\ UNCHANGED <<inputs, argi, parsed, maps, call>>

\* bigkmz.go:515-516: endKML writes the footer, then doc.kml is closed; the
\* error endKML returns is dropped, so a footer that could not be written
\* goes unnoticed
EndKML ==
    /\ pc = "walk"
    /\ ti = Len(tileFiles)
    /\ kmlFtr' \in BOOLEAN
    /\ kmlOpen' = FALSE
    /\ pc' = "createKmz"
    /\ UNCHANGED <<inputs, argi, err, parsed, maps, tmpDir, kml, kmz, zf, walk, call>>

\* bigkmz.go:517-522: <base>.kmz is created and zipd writes the directory
\* into it; zipd returns nil whatever happens (bigkmz.go:648-683), a walk
\* that stopped on an error leaves an archive short of files
CreateKmz ==
    /\ pc = "createKmz"
    /\ \E ok \in BOOLEAN :
          IF ~ok THEN Return("Create") /\ UNCHANGED <<kmz, zf>>
          ELSE /\ pc' = "cleanup"
               /\ kmz' = kmz + 1
               /\ zf' \in {"whole", "partial"}
               /\ UNCHANGED err
    /\ UNCHANGED <<inputs, argi, parsed, maps, tmpDir, kml, kmlOpen, kmlFtr, walk, call>>

\* bigkmz.go:524-532: the temporary directory goes unless keep_tmp; then the
\* next image, with the variables of the loop body fresh, or the end of
\* process
Cleanup ==
    /\ pc = "cleanup"
    /\ \E ok \in BOOLEAN :
          IF ~keepTmp /\ ~ok
          THEN /\ Return("RemoveAll")
               /\ UNCHANGED <<argi, parsed, maps, tmpDir, kml, kmlOpen, kmlFtr, zf, walk>>
          ELSE IF argi < Len(args)
          THEN /\ pc' = "stat"
               /\ argi' = argi + 1
               /\ base' = <<>>
               /\ box' = <<>>
               /\ origMap' = NoTile
               /\ fixedMap' = NoTile
               /\ fixedJpg' = NoSize
               /\ tileFiles' = <<>>
               /\ tmpDir' = "none"
               /\ kml' = <<>>
               /\ kmlOpen' = FALSE
               /\ kmlFtr' = FALSE
               /\ zf' = "none"
               /\ widthSum' = 0
               /\ currNorth' = 0
               /\ currWest' = 0
               /\ ti' = 0
               /\ tile' = NoTile
               /\ anchors' = <<>>
               /\ UNCHANGED err
          ELSE /\ Return("nil")
               /\ tmpDir' = IF keepTmp THEN tmpDir ELSE "removed"
               /\ UNCHANGED <<argi, parsed, maps, kml, kmlOpen, kmlFtr, zf, walk>>
    /\ UNCHANGED <<inputs, kmz, call>>

Next ==
    \/ Begin
    \/ Stat
    \/ GetBox
    \/ OrigMap
    \/ TempDir
    \/ Fix
    \/ FixedMap
    \/ Chop
    \/ StartKML
    \/ ReadDir
    \/ TileStep
    \/ EndKML
    \/ CreateKmz
    \/ Cleanup


(***************************************************************************)
(* The command lines.  A file name is put together from parts joined by    *)
(* "_": the parts of the path up to the map name, then coordinate fields.  *)
(* Each part is listed with what it denotes under the file-name grammar    *)
(* <name>_<N>_<S>_<E>_<W>.<ext>: whether it is a decimal number (num) and  *)
(* its value in tenths of a degree; for a last field, the number is what   *)
(* precedes the extension.  A path is listed with the base name of its     *)
(* first part.  given[i] keeps the parts args[i] was made of.              *)
(***************************************************************************)
Part(t, n, v) == [txt |-> t, num |-> n, tenths |-> v]

\* paths: a map name, one in a directory, an empty one in a directory, one under a
\* directory with an underscore in its name
NameTokens ==
    { [parts |-> <<Part(<<"/", "m">>, FALSE, 0)>>, base |-> <<"m">>],
      [parts |-> <<Part(<<"/", "d", "/", "m">>, FALSE, 0)>>, base |-> <<"m">>],
      [parts |-> <<Part(<<"/", "d", "/">>, FALSE, 0)>>, base |-> <<"d">>],
      [parts |-> <<Part(<<"/", "d">>, FALSE, 0), Part(<<"e", "/", "m">>, FALSE, 0)>>, base |-> <<"d">>] }

\* north latitudes
NorthTokens ==
    { Part(<<"5", "0">>, TRUE, 500),
      Part(<<"9", "0">>, TRUE, 900),
      Part(<<"-", "4", "0">>, TRUE, -400),
      Part(<<"0">>, TRUE, 0),
      Part(<<"4", "9", ".", "5">>, TRUE, 495),
      Part(<<"9", "1">>, TRUE, 910),
      Part(<<"x">>, FALSE, 0) }

\* south latitudes
SouthTokens ==
    { Part(<<"4", "0">>, TRUE, 400),
      Part(<<"-", "9", "0">>, TRUE, -900),
      Part(<<"-", "5", "0">>, TRUE, -500),
      Part(<<"5", "0">>, TRUE, 500),
      Part(<<"-", "9", "1">>, TRUE, -910),
      Part(<<"4", "x">>, FALSE, 0) }

\* east longitudes
EastTokens ==
    { Part(<<"1", "0">>, TRUE, 100),
      Part(<<"-", "1", "7", "0">>, TRUE, -1700),
      Part(<<"1", "9", "0">>, TRUE, 1900),
      Part(<<"-", "5", "4", "0">>, TRUE, -5400),
      Part(<<>>, FALSE, 0) }

\* west longitudes with the extension: with a decimal point, with two extensions,
\* without extension, without decimal point, not a number
WestTokens ==
    { Part(<<"0", ".", "0", ".", "j", "p", "g">>, TRUE, 0),
      Part(<<"1", "7", "0", ".", "5", ".", "j", "p", "g">>, TRUE, 1705),
      Part(<<"-", "1", "9", "0", ".", "0", ".", "j", "p", "g">>, TRUE, -1900),
      Part(<<"0", ".", "0", ".", "t", ".", "j">>, TRUE, 0),
      Part(<<"1", "0">>, TRUE, 100),
      Part(<<"0", ".", "j", "p", "g">>, TRUE, 0),
      Part(<<"-", "1", "2", "3", ".", "j", "p", "g">>, TRUE, -1230),
      Part(<<"x", ".", "0", ".", "j", "p", "g">>, FALSE, 0) }

RECURSIVE Join(_)
Join(parts) ==
    IF Len(parts) = 1 THEN parts[1].txt
    ELSE parts[1].txt \o <<"_">> \o Join(Tail(parts))

FileName(g) == Join(g.parts)

Named(m, fields) == [parts |-> m.parts \o fields, base |-> m.base]

\* every file name of four fields, and some of three and of five
NamedImages ==
    {Named(m, <<n, s, e, w>>) :
        m \in NameTokens, n \in NorthTokens, s \in SouthTokens, e \in EastTokens, w \in WestTokens}
    \cup {Named(m, <<n, s, w>>) :
        m \in NameTokens, n \in NorthTokens, s \in SouthTokens, w \in WestTokens}
    \cup {Named(m, <<n, s, e, e, w>>) :
        m \in NameTokens, n \in NorthTokens, s \in SouthTokens, e \in EastTokens, w \in WestTokens}

\* the file /m_<n>_<s>_<e>_<w>
MapM(n, s, e, w) == [parts |-> <<Part(<<"/", "m">>, FALSE, 0), n, s, e, w>>, base |-> <<"m">>]

\* the boxes of kmz_test.go (TestDelta) and of the spec, a box on the
\* antimeridian given with east = 190, one across the equator, the whole
\* world, one of no width, and two names getBox refuses
WalkImages ==
    { MapM(Part(<<"5", "0">>, TRUE, 500),
           Part(<<"4", "0">>, TRUE, 400),
           Part(<<"1", "0">>, TRUE, 100),
           Part(<<"0", ".", "0", ".", "j", "p", "g">>, TRUE, 0)),
      MapM(Part(<<"5", "0">>, TRUE, 500),
           Part(<<"4", "0">>, TRUE, 400),
           Part(<<"-", "1", "7", "0">>, TRUE, -1700),
           Part(<<"1", "7", "0", ".", "0", ".", "j", "p", "g">>, TRUE, 1700)),
      MapM(Part(<<"4", "9", ".", "5">>, TRUE, 495),
           Part(<<"4", "0", ".", "5">>, TRUE, 405),
           Part(<<"1", "9", "0">>, TRUE, 1900),
           Part(<<"1", "7", "0", ".", "5", ".", "j", "p", "g">>, TRUE, 1705)),
      MapM(Part(<<"-", "5", "0">>, TRUE, -500),
           Part(<<"-", "6", "0">>, TRUE, -600),
           Part(<<"1", "0">>, TRUE, 100),
           Part(<<"0", ".", "0", ".", "j", "p", "g">>, TRUE, 0)),
      MapM(Part(<<"1", "0">>, TRUE, 100),
           Part(<<"-", "1", "0">>, TRUE, -100),
           Part(<<"0">>, TRUE, 0),
           Part(<<"-", "1", "0", ".", "0", ".", "j", "p", "g">>, TRUE, -100)),
      MapM(Part(<<"9", "0">>, TRUE, 900),
           Part(<<"-", "9", "0">>, TRUE, -900),
           Part(<<"1", "8", "0">>, TRUE, 1800),
           Part(<<"-", "1", "8", "0", ".", "0", ".", "j", "p", "g">>, TRUE, -1800)),
      MapM(Part(<<"5", "0">>, TRUE, 500),
           Part(<<"4", "0">>, TRUE, 400),
           Part(<<"-", "1", "8", "0">>, TRUE, -1800),
           Part(<<"1", "8", "0", ".", "0", ".", "j", "p", "g">>, TRUE, 1800)),
      MapM(Part(<<"4", "0">>, TRUE, 400),
           Part(<<"5", "0">>, TRUE, 500),
           Part(<<"1", "0">>, TRUE, 100),
           Part(<<"0", ".", "0", ".", "j", "p", "g">>, TRUE, 0)),
      MapM(Part(<<"5", "0">>, TRUE, 500),
           Part(<<"4", "0">>, TRUE, 400),
           Part(<<"1", "0">>, TRUE, 100),
           Part(<<"0", ".", "j", "p", "g">>, TRUE, 0)) }

\* values that are not yet set
InitLocals ==
    /\ argi = 0
    /\ err = "nil"
    /\ base = <<>>
    /\ box = <<>>
    /\ origMap = NoTile
    /\ fixedMap = NoTile
    /\ fixedJpg = NoSize
    /\ tileFiles = <<>>
    /\ tmpDir = "none"
    /\ kml = <<>>
    /\ kmlOpen = FALSE
    /\ kmlFtr = FALSE
    /\ kmz = 0
    /\ zf = "none"
    /\ widthSum = 0
    /\ currNorth = 0
    /\ currWest = 0
    /\ ti = 0
    /\ tile = NoTile
    /\ anchors = <<>>

NoCall ==
    /\ fn = "none"
    /\ argv = <<>>
    /\ ret = <<>>

\* the kmz subcommand on no image or on one of WalkImages, of any size
Init ==
    /\ \E gs \in {<<>>} \cup {<<g>> : g \in WalkImages} :
          /\ given = gs
          /\ args = [i \in 1..Len(gs) |-> FileName(gs[i])]
          /\ pixels \in [1..Len(gs) -> Sizes]
    /\ maxTiles \in {1, 100}
    /\ keepTmp \in BOOLEAN
    /\ pc = "begin"
    /\ InitLocals
    /\ NoCall

Spec == Init /\ [][Next]_vars

\* the kmz subcommand on one image of the smallest size, of any name
InitNames ==
    /\ \E g \in NamedImages :
          /\ given = <<g>>
          /\ args = <<FileName(g)>>
          /\ pixels = <<[width |-> PxStep, height |-> PxStep]>>
    /\ maxTiles = 100
    /\ keepTmp = FALSE
    /\ pc = "begin"
    /\ InitLocals
    /\ NoCall

SpecNames == InitNames /\ [][Next]_vars

\* the file /m_<n>_<s>_<w>, a field short
MapShort(n, s, w) == [parts |-> <<Part(<<"/", "m">>, FALSE, 0), n, s, w>>, base |-> <<"m">>]

\* a well-named image, and one for each way getBox fails: a field short, a
\* field that is no number, south above north
ArgImages ==
    { MapM(Part(<<"5", "0">>, TRUE, 500),
           Part(<<"4", "0">>, TRUE, 400),
           Part(<<"1", "0">>, TRUE, 100),
           Part(<<"0", ".", "0", ".", "j", "p", "g">>, TRUE, 0)),
      MapShort(Part(<<"5", "0">>, TRUE, 500),
               Part(<<"4", "0">>, TRUE, 400),
               Part(<<"0", ".", "0", ".", "j", "p", "g">>, TRUE, 0)),
      MapM(Part(<<"x">>, FALSE, 0),
           Part(<<"4", "0">>, TRUE, 400),
           Part(<<"1", "0">>, TRUE, 100),
           Part(<<"0", ".", "0", ".", "j", "p", "g">>, TRUE, 0)),
      MapM(Part(<<"4", "0">>, TRUE, 400),
           Part(<<"5", "0">>, TRUE, 500),
           Part(<<"1", "0">>, TRUE, 100),
           Part(<<"0", ".", "0", ".", "j", "p", "g">>, TRUE, 0)) }

\* the kmz subcommand on two images of ArgImages, each of the smallest size
\* or of twice its width
InitArgs ==
    /\ \E g1 \in ArgImages, g2 \in ArgImages :
          /\ given = <<g1, g2>>
          /\ args = <<FileName(g1), FileName(g2)>>
    /\ pixels \in [1..2 -> {[width |-> w * PxStep, height |-> PxStep] : w \in 1..2}]
    /\ maxTiles = 100
    /\ keepTmp \in BOOLEAN
    /\ pc = "begin"
    /\ InitLocals
    /\ NoCall

SpecArgs == InitArgs /\ [][Next]_vars


(***************************************************************************)
(* The functions called on their own, as kmz_test.go calls them: fn is the *)
(* function, argv its arguments, ret is <<>> before the call and <<r>>     *)
(* after it.  normEasting is then called once more, on its own result,     *)
(* which is appended to ret.                                               *)
(***************************************************************************)
\* longitudes: every half degree of [-MaxDeg, MaxDeg]
HalfDegrees == {k * 5 * Tenth : k \in (-2 * MaxDeg)..(2 * MaxDeg)}

\* longitudes: every ten degrees of [-MaxDeg, MaxDeg], and 178 (TestEWD)
TenDegrees == {Deg(10 * k) : k \in (-(MaxDeg \div 10))..(MaxDeg \div 10)}

\* latitudes: every ten degrees of [-120, 120], and 49.4, 91, -91
Latitudes == {Deg(10 * k) : k \in -12..12} \cup {494 * Tenth, Deg(91), -Deg(91)}

\* longitudes handed to NewMapTile
SomeLongitudes == {Deg(0), Deg(180), Deg(190), -Deg(540), -(1805 * Tenth)}

\* the boxes of kmz_test.go:8-12, and the whole world
TestBoxes ==
    { <<Deg(50), Deg(40), Deg(10), Deg(0)>>,
      <<-Deg(50), -Deg(60), Deg(10), Deg(0)>>,
      <<Deg(50), Deg(40), Deg(0), -Deg(10)>>,
      <<Deg(50), Deg(40), -Deg(120), -Deg(130)>>,
      <<Deg(50), Deg(40), -Deg(170), Deg(170)>>,
      <<Deg(90), -Deg(90), Deg(180), -Deg(180)>> }

\* full maps: the boxes of TestBoxes over every image size
FullMaps ==
    {NewMapTile("fixed.jpg", z.width, z.height, b[north], b[south], b[east], b[west]) :
        z \in Sizes, b \in TestBoxes}

\* tiles as the walk makes them (bigkmz.go:487): a north and a west, south
\* and east still 0
NewTiles ==
    {NewMapTile("tile", z.width, z.height, n, 0, 0, w) :
        z \in Sizes,
        n \in {Deg(50), Deg(45), Deg(90), Deg(0)},
        w \in {Deg(0), -Deg(130), Deg(170), Deg(175), Deg(180)}}

\* tile numbers: the first ones and the last ones up to MaxIndex, and those
\* around every hundred
TileIndexes ==
    {i \in 0..MaxIndex : i <= 11 \/ i >= MaxIndex - 11 \/ i % 100 \in {99, 0, 1}}

InitFn ==
    /\ \/ fn = "normEasting" /\ argv \in {<<d>> : d \in HalfDegrees}
       \/ fn = "ReadDir" /\ argv \in TileIndexes \X TileIndexes
       \/ fn = "finishTileBox" /\ argv \in NewTiles \X FullMaps
       \/ fn = "eastDelta" /\ argv \in TenDegrees \X (TenDegrees \cup {Deg(178)})
       \/ fn = "NewMapTile" /\ argv \in Latitudes \X Latitudes \X SomeLongitudes \X SomeLongitudes
    /\ ret = <<>>
    /\ args = <<>>
    /\ given = <<>>
    /\ pixels = <<>>
    /\ maxTiles = 100
    /\ keepTmp = FALSE
    /\ pc = "test"
    /\ InitLocals

CallNormEasting ==
    /\ pc = "test"
    /\ fn = "normEasting"
    /\ ret = <<>>
    /\ ret' = <<normEasting(argv[1])>>
    /\ UNCHANGED <<inputs, pc, argi, err, parsed, maps, files, walk, fn, argv>>

CallNormEastingAgain ==
    /\ pc = "test"
    /\ fn = "normEasting"
    /\ Len(ret) = 1
    /\ ret' = Append(ret, normEasting(ret[1]))
    /\ UNCHANGED <<inputs, pc, argi, err, parsed, maps, files, walk, fn, argv>>

CallEastDelta ==
    /\ pc = "test"
    /\ fn = "eastDelta"
    /\ ret = <<>>
    /\ ret' = <<eastDelta(argv[1], argv[2])>>
    /\ UNCHANGED <<inputs, pc, argi, err, parsed, maps, files, walk, fn, argv>>

CallNewMapTile ==
    /\ pc = "test"
    /\ fn = "NewMapTile"
    /\ ret = <<>>
    /\ ret' = <<NewMapTile("", PxStep, PxStep, argv[1], argv[2], argv[3], argv[4])>>
    /\ UNCHANGED <<inputs, pc, argi, err, parsed, maps, files, walk, fn, argv>>

\* the tile is changed in place: ret is the tile after the call
CallFinishTileBox ==
    /\ pc = "test"
    /\ fn = "finishTileBox"
    /\ ret = <<>>
    /\ ret' = <<finishTileBox(argv[1], argv[2])>>
    /\ UNCHANGED <<inputs, pc, argi, err, parsed, maps, files, walk, fn, argv>>

\* two tile files of one image as ioutil.ReadDir orders them: ret tells
\* whether the file numbered argv[1] comes before the one numbered argv[2]
CallReadDir ==
    /\ pc = "test"
    /\ fn = "ReadDir"
    /\ ret = <<>>
    /\ ret' = <<StringLess(TileName(<<"m">>, argv[1]), TileName(<<"m">>, argv[2]))>>
    /\ UNCHANGED <<inputs, pc, argi, err, parsed, maps, files, walk, fn, argv>>

NextFn ==
    \/ CallNormEasting
    \/ CallReadDir
    \/ CallFinishTileBox
    \/ CallNormEastingAgain
    \/ CallEastDelta
    \/ CallNewMapTile

SpecFn == InitFn /\ [][NextFn]_vars


(***************************************************************************)
(* Properties.                                                             *)
(***************************************************************************)
InLongitudeRange(d) == -Deg(180) <= d /\ d <= Deg(180)
InLatitudeRange(d)  == -Deg(90) <= d /\ d <= Deg(90)

Called(f) == fn = f /\ ret # <<>>

RECURSIVE WidthOf(_, _)
\* the pixel width of the first i tile files together
WidthOf(ts, i) == IF i = 0 THEN 0 ELSE WidthOf(ts, i - 1) + ts[i].width

\* tile file i is the last one of its row
RowEnd(i) == WidthOf(tileFiles, i) % fixedMap.width = 0

RECURSIVE IsGrid(_, _, _)
\* ts is a row-major grid: rows of tiles of one height, the widths of each
\* row summing to w, the heights of the rows summing to h
IsGrid(ts, w, h) ==
    IF ts = <<>> THEN h = 0
    ELSE /\ \E k \in 1..Len(ts) : WidthOf(ts, k) = w
         /\ LET k == CHOOSE k \in 1..Len(ts) : WidthOf(ts, k) = w
            IN  /\ \A i \in 1..k : ts[i].height = ts[1].height /\ ts[i].width > 0
                /\ ts[1].height > 0
                /\ IsGrid(SubSeq(ts, k + 1, Len(ts)), w, h - ts[1].height)

\* the walk has been through every tile of a grid over the fixed image
WalkDone ==
    /\ tileFiles # <<>>
    /\ IsGrid(tileFiles, fixedMap.width, fixedMap.height)
    /\ Len(kml) = Len(tileFiles)

LastTile == kml[Len(kml)]

\* C1: after a full raster walk over a grid that covers the parent, the last
\* tile's south is the parent's south and its east is the parent's east
\* (up to a multiple of 360 degrees when the parent crosses the antimeridian)
C1_LastTileMeetsCorner ==
    WalkDone =>
        /\ LastTile.box[south] = fixedMap.box[south]
        /\ IF fixedMap.box[east] >= fixedMap.box[west]
           THEN LastTile.box[east] = fixedMap.box[east]
           ELSE (LastTile.box[east] - fixedMap.box[east]) % Deg(360) = 0

\* a finished walk of at least two rows and two columns over a parent that
\* crosses the antimeridian, ending 360 degrees past the parent's east
C1_Witness ==
    /\ WalkDone
    /\ Len(kml) >= 4
    /\ ~RowEnd(1)
    /\ fixedMap.box[east] < fixedMap.box[west]
    /\ LastTile.box[south] = fixedMap.box[south]
    /\ LastTile.box[east] = fixedMap.box[east] + Deg(360)

\* C2: every tile box the walk produces over a grid that covers the parent
\* has south <= north and both latitudes in [-90, 90]
C2_TileLatitudes ==
    \A i \in 1..Len(kml) :
        /\ kml[i].box[south] <= kml[i].box[north]
        /\ InLatitudeRange(kml[i].box[north])
        /\ InLatitudeRange(kml[i].box[south])

\* a tile of a later row of the whole-world box, reaching the south pole, and
\* a tile of a parent spanning the antimeridian
C2_Witness ==
    /\ Len(kml) >= 2
    /\ \/ /\ LastTile.box[south] = -Deg(90)
          /\ LastTile.box[north] < Deg(90)
       \/ /\ fixedMap.box[east] = -Deg(170)
          /\ fixedMap.box[west] = Deg(170)
          /\ LastTile.box[south] < LastTile.box[north]

\* C3: within a row, the east computed for tile i is the west anchor handed
\* to tile i+1, before NewMapTile normalizes it
C3_SharedEdge ==
    /\ \A i \in 1..(Len(anchors) - 1) :
          ~RowEnd(i) => anchors[i + 1][2] = kml[i].box[east]
    /\ (pc = "walk" /\ ti > 0 /\ ~RowEnd(ti)) => currWest = tile.box[east]

\* two tiles of a row sharing an edge east of 180 degrees: the anchor handed
\* on is the unnormalized east, the next tile's west is 360 degrees less
C3_Witness ==
    \E i \in 1..(Len(kml) - 1) :
        /\ ~RowEnd(i)
        /\ kml[i].box[east] > Deg(180)
        /\ anchors[i + 1][2] = kml[i].box[east]
        /\ kml[i + 1].box[west] = kml[i].box[east] - Deg(360)

\* C4: normEasting(deg) lies in [-180, 180] for every deg
C4_NormInRange ==
    Called("normEasting") => InLongitudeRange(ret[1])

\* an odd multiple of 180 beyond the range comes back as -180
C4_Witness ==
    /\ Called("normEasting")
    /\ argv[1] = Deg(540)
    /\ ret[1] = -Deg(180)

\* kmz_test.go:75-85 and the spec's list: deg, normEasting(deg)
NormVectors ==
    { <<180, 180>>, <<-180, -180>>, <<-185, 175>>, <<-360, 0>>, <<360, 0>>,
      <<420, 60>>, <<-420, -60>>, <<10, 10>>, <<-100, -100>> }

\* C5: normEasting(deg) differs from deg by a multiple of 360, leaves the
\* values of [-180, 180] unchanged, and maps the literal vectors as listed
C5_NormCongruent ==
    Called("normEasting") =>
        /\ (ret[1] - argv[1]) % Deg(360) = 0
        /\ InLongitudeRange(argv[1]) => ret[1] = argv[1]
        /\ \A v \in NormVectors : argv[1] = Deg(v[1]) => ret[1] = Deg(v[2])

\* -185 comes back as 175
C5_Witness ==
    /\ Called("normEasting")
    /\ argv[1] = -Deg(185)
    /\ ret[1] = Deg(175)

\* C6: eastDelta(e, w) is strictly positive and at most 360
C6_EastDeltaPositive ==
    Called("eastDelta") => (0 < ret[1] /\ ret[1] <= Deg(360))

\* kmz_test.go:60-64: east, west, eastDelta(east, west)
EastDeltaVectors ==
    { <<10, 0, 10>>, <<-100, -120, 20>>, <<10, -10, 20>>, <<-170, 170, 20>>,
      <<170, 178, 352>> }

\* C7: eastDelta(e, w) is the eastward arc from w to e: e' - w' when
\* e' >= w' and 360 + e' - w' otherwise, for the normalized e' and w'; it
\* maps the literal vectors as listed
C7_EastDeltaArc ==
    Called("eastDelta") =>
        LET e1 == normEasting(argv[1])
            w1 == normEasting(argv[2])
        IN  /\ e1 >= w1 => ret[1] = e1 - w1
            /\ e1 < w1 => ret[1] = Deg(360) + e1 - w1
            /\ 0 <= ret[1] /\ ret[1] <= Deg(360)
            /\ (w1 + ret[1] - e1) % Deg(360) = 0
            /\ \A v \in EastDeltaVectors :
                  (argv[1] = Deg(v[1]) /\ argv[2] = Deg(v[2])) => ret[1] = Deg(v[3])

\* the arc across the antimeridian from 170 to -170 is 20 degrees
C7_Witness ==
    /\ Called("eastDelta")
    /\ argv = <<-Deg(170), Deg(170)>>
    /\ ret[1] = Deg(20)

\* getBox has returned for the current image
GetBoxReturned ==
    /\ argi > 0
    /\ pc \notin {"stat", "getBox"}
    /\ err \notin {"NotExist", "Abs"}

GetBoxFailed == err \in {"FileName", "ParseFloat", "Box"}

\* the coordinates a file name of five parts denotes, in model units
Denoted(g) == [i \in 1..4 |-> g.parts[i + 1].tenths * Tenth]

\* the failures the claim lists, read off the parts of the file name
ListedFailure(g) ==
    \/ Len(g.parts) # 5
    \/ \E i \in 2..5 : ~g.parts[i].num
    \/ Denoted(g)[north] <= Denoted(g)[south]
    \/ Denoted(g)[north] > Deg(90)
    \/ Denoted(g)[south] < -Deg(90)

\* C8: getBox fails exactly when the name has not 5 parts, or a coordinate
\* is not a number, or north <= south, or north > 90, or south < -90
C8_GetBoxFailsExactly ==
    GetBoxReturned => (GetBoxFailed <=> ListedFailure(given[argi]))

\* C9: NewMapTile panics exactly when north <= south or a latitude is
\* outside [-90, 90]; the tile it returns has east and west in [-180, 180]
C9_NewMapTileRejects ==
    Called("NewMapTile") =>
        /\ IsPanic(ret[1]) <=>
              \/ argv[1] <= argv[2]
              \/ ~InLatitudeRange(argv[1])
              \/ ~InLatitudeRange(argv[2])
        /\ ~IsPanic(ret[1]) =>
              /\ InLongitudeRange(ret[1].box[east])
              /\ InLongitudeRange(ret[1].box[west])

\* C10: on success getBox returns the base name of the first component and
\* north, south, east, west in this order, east and west within [-180, 180]
C10_GetBoxNormalizes ==
    (GetBoxReturned /\ ~GetBoxFailed) =>
        /\ base = given[argi].base
        /\ box[north] = Denoted(given[argi])[north]
        /\ box[south] = Denoted(given[argi])[south]
        /\ (box[east] - Denoted(given[argi])[east]) % Deg(360) = 0
        /\ (box[west] - Denoted(given[argi])[west]) % Deg(360) = 0
        /\ InLongitudeRange(box[east])
        /\ InLongitudeRange(box[west])

\* C10 as amended: on success getBox returns the base name of the first
\* component and north, south, east, west in this order as parsed; east and
\* west are normalized into [-180, 180] by NewMapTile when process builds the
\* map tile of the image from them
C10_GetBoxThenNewMapTile ==
    (GetBoxReturned /\ ~GetBoxFailed) =>
        /\ base = given[argi].base
        /\ box = Denoted(given[argi])
        /\ origMap # NoTile =>
              /\ origMap.box[north] = box[north]
              /\ origMap.box[south] = box[south]
              /\ (origMap.box[east] - box[east]) % Deg(360) = 0
              /\ (origMap.box[west] - box[west]) % Deg(360) = 0
              /\ InLongitudeRange(origMap.box[east])
              /\ InLongitudeRange(origMap.box[west])

\* a file in a directory whose east is given as 190: getBox returns 190, the
\* map tile has -170
C10_Witness ==
    /\ GetBoxReturned
    /\ ~GetBoxFailed
    /\ given[argi].parts[1].txt = <<"/", "d", "/", "m">>
    /\ base = <<"m">>
    /\ box[east] = Deg(190)
    /\ origMap # NoTile
    /\ origMap.box[east] = -Deg(170)

\* C11: the tiles convert -crop 1024x1024 cuts from the fixed image, whose
\* area is at most max_tiles * 1024 * 1024 pixels, number at most max_tiles
C11_TilesWithinMax ==
    ( /\ fixedJpg # NoSize
      /\ fixedJpg.width * fixedJpg.height <= MaxPixels
      /\ tileFiles = chopToJpgs(fixedJpg.width, fixedJpg.height) )
    => Len(tileFiles) <= maxTiles

\* the errors of a file name: what getBox returns, wrapped by process
FormatError == {"FileName", "ParseFloat", "Box"}

\* C12: a FormatError of one input does not end the run: process goes on to
\* the later inputs, so that when it returns every input has had its turn
C12_LaterInputsProcessed ==
    (pc = "return" /\ err \in FormatError) => argi = Len(args)

\* convert failed in resizeFixToJpg or fixToJpg: no fixed.jpg was written
FixFailed ==
    /\ fixedJpg = NoSize
    /\ \/ pc = "fixedMap"
       \/ pc = "return" /\ err = "Dimensions" /\ tmpDir = "made"

\* convert failed in chopToJpgs: the tiles directory is empty
ChopFailed ==
    /\ fixedMap # NoTile
    /\ pc # "chop"
    /\ tileFiles = <<>>

\* C13: when the image engine has failed for an image (resize or strip, or
\* chop), process returns an error and no .kmz has been written for it
C13_EngineFailureFatal ==
    (pc = "return" /\ (FixFailed \/ ChopFailed)) => (err # "nil" /\ kmz = 0)

\* doc.kml is whole: header, one overlay per tile file, footer, closed
WholeKML ==
    /\ ~kmlOpen
    /\ Len(kml) = Len(tileFiles)
    /\ kmlFtr

\* C14: the .kmz of an image exists only once doc.kml is whole, and when
\* process returns an error no .kmz short of files or holding an unfinished
\* doc.kml is left
C14_KmzAfterWholeKML ==
    /\ zf # "none" => WholeKML
    /\ (pc = "return" /\ err # "nil") => zf \in {"none", "whole"}

\* C15: with keep_tmp false, when process returns, the temporary directory
\* of the image is gone on every path, error returns included (left aside
\* the one return where the removal itself has failed)
C15_TmpDirRemoved ==
    (pc = "return" /\ ~keepTmp /\ err # "RemoveAll") => tmpDir # "made"

\* C16: normEasting is idempotent: called on its own result it returns that
\* result
C16_NormIdempotent ==
    (fn = "normEasting" /\ Len(ret) = 2) => ret[2] = ret[1]

\* -540 comes back as 180, and 180 comes back as 180
C16_Witness ==
    /\ fn = "normEasting"
    /\ argv[1] = -Deg(540)
    /\ ret = <<Deg(180), Deg(180)>>

\* a step of the walk that has written the overlay of a tile
WalkStep == pc = "walk" /\ ti' = ti + 1

\* C17: the walk starts at the parent's north and west with widthSum 0; a
\* step adds the tile's pixel width to widthSum; when the sum reaches the
\* parent's pixel width the next anchor is (this tile's south, the parent's
\* west) and widthSum is 0 again, otherwise the north stays and the next
\* west is this tile's east.  Hence the tiles of a row have one north and
\* the first tile of a row has the parent's west.
C17_WalkStep ==
    /\ [](anchors # <<>> =>
            anchors[1] = <<fixedMap.box[north], fixedMap.box[west]>>)
    /\ []((pc = "walk" /\ ti = 0) => widthSum = 0)
    /\ [][WalkStep =>
            LET sum == widthSum + tileFiles[ti + 1].width
            IN  /\ tile'.width = tileFiles[ti + 1].width
                /\ IF sum >= fixedMap.width
                   THEN /\ currNorth' = tile'.box[south]
                        /\ currWest' = fixedMap.box[west]
                        /\ widthSum' = 0
                   ELSE /\ currNorth' = currNorth
                        /\ currWest' = tile'.box[east]
                        /\ widthSum' = sum]_vars
    /\ [](\A i \in 1..(Len(kml) - 1) :
            IF RowEnd(i)
            THEN /\ kml[i + 1].box[north] = kml[i].box[south]
                 /\ kml[i + 1].box[west] = fixedMap.box[west]
            ELSE kml[i + 1].box[north] = kml[i].box[north])

\* a walk over two rows of two tiles: the second tile keeps the north of the
\* first, the third starts a row at the parent's west under the first row
C17_Witness ==
    /\ Len(kml) = 4
    /\ Len(tileFiles) = 4
    /\ ~RowEnd(1)
    /\ RowEnd(2)
    /\ kml[2].box[north] = fixedMap.box[north]
    /\ kml[2].box[west] = kml[1].box[east]
    /\ kml[3].box[north] = kml[2].box[south]
    /\ kml[3].box[north] < fixedMap.box[north]
    /\ kml[3].box[west] = fixedMap.box[west]
    /\ widthSum = 0

\* C18: finishTileBox(tile, fullMap) sets the tile's south to its north
\* less the tile's share of the full map's height in degrees, and its east
\* to its west plus the tile's share of eastDelta(east, west) of the full
\* map, not brought back into [-180, 180]; the tile's north, west, pixel
\* size and path stay as they were
C18_FinishTileBoxFrame ==
    Called("finishTileBox") =>
        LET t0 == argv[1]
            fullMap == argv[2]
            t  == ret[1]
            ns == ((fullMap.box[north] - fullMap.box[south]) \div fullMap.height) * t0.height
            ew == (eastDelta(fullMap.box[east], fullMap.box[west]) \div fullMap.width) * t0.width
        IN  /\ t.box[south] = t0.box[north] - ns
            /\ t.box[east] = t0.box[west] + ew
            /\ t.box[north] = t0.box[north]
            /\ t.box[west] = t0.box[west]
            /\ t.width = t0.width
            /\ t.height = t0.height
            /\ t.fpath = t0.fpath
            /\ DOMAIN t = DOMAIN t0

\* a tile at west 175 of a full map across the antimeridian, of the full
\* map's width: its east is 195, beyond 180
C18_Witness ==
    /\ Called("finishTileBox")
    /\ argv[1].box[west] = Deg(175)
    /\ argv[2].box[east] = -Deg(170)
    /\ argv[2].box[west] = Deg(170)
    /\ argv[1].width = argv[2].width
    /\ ret[1].box[east] = Deg(195)
    /\ ret[1].box[south] < ret[1].box[north]

\* C19: of two tile files of an image, the one with the smaller number comes
\* first in the order of the file names, whatever the number of tiles
C19_NameOrderIsIndexOrder ==
    Called("ReadDir") => (ret[1] <=> argv[1] < argv[2])

\* C20: for a box getBox has accepted, the walk builds every tile without
\* NewMapTile's panic and has written one overlay per tile file when it ends
C20_WalkNeverPanics ==
    /\ pc # "panic"
    /\ pc = "createKmz" => Len(kml) = Len(tileFiles)

\* the last part of the file name ends in an extension: a dot followed by
\* something that is no digit
WithExtension(g) ==
    LET t == g.parts[Len(g.parts)].txt
    IN  \E i \in 1..(Len(t) - 1) : t[i] = "." /\ t[i + 1] \notin Digits

\* C21: getBox succeeds on every name <name>_<N>_<S>_<E>_<W>.<ext> whose
\* fields are decimal numbers with N > S, N <= 90 and S >= -90, with or
\* without a decimal point in W, and returns W without the extension
C21_GetBoxAnyWest ==
    ( /\ GetBoxReturned
      /\ WithExtension(given[argi])
      /\ ~ListedFailure(given[argi]) )
    => ( /\ ~GetBoxFailed
         /\ box[west] = Denoted(given[argi])[west] )

=============================================================================
